---- MODULE Spec2Model ----
(***************************************************************************)
(* Model of the code-context storage layer: the sqlite-vec vector store    *)
(* (packages/core/src/vectordb/sqlite-vec-vectordb.ts), the path registry  *)
(* (core/src/utils/vector-paths.ts), the vector database factory and the   *)
(* VSCode extension's index / sync commands.                               *)
(*                                                                         *)
(* Strings that the code takes apart are modelled structurally:            *)
(*   - a collection name is a record [prefix, text, hex]: the string       *)
(*     prefix ++ text ++ hex, where hex is a sequence of hex digits 0..15; *)
(*   - a database file is a record [dir, base]: the file <dir>/<base>.db,  *)
(*     base being a sequence of hex digits.                                *)
(* Columns of the documents table that no operation reads or compares      *)
(* (relativePath, startLine, endLine, metadata) are stored and returned    *)
(* verbatim by the code and are left out of the rows.                      *)
(*                                                                         *)
(* Context (packages/core/src/context.ts) is not among the sources: its    *)
(* collection names and its writer lock follow the specification.          *)
(***************************************************************************)
EXTENDS Integers, Sequences, FiniteSets, TLC

VARIABLES
    env,                 \* process.env.VECTOR_DB_PATH ("" when unset)
    cfg,                 \* SqliteVecConfig.dbPath of the store instance ("" when unset)
    dirs,                \* directories that exist on disk
    disk,                \* database files on disk: file -> tables
    db,                  \* SqliteVecVectorDatabase.db: the file the handle is open on, or NoFile
    currentCodebasePath, \* SqliteVecVectorDatabase.currentCodebasePath
    dimension,           \* SqliteVecVectorDatabase.dimension
    out,                 \* what the last operation returned (or that it threw)
    upserted,            \* history: per collection name, the chunks upserted and not
                         \* deleted since the collection was created
    created,             \* history: per collection name, the dimension it was last created
                         \* with (0: never created, or dropped since)
    nops,                \* number of operations issued so far
    mappings,            \* path-mappings.json: path hash -> resolved codebase path
    paths,               \* the codebase directories that exist
    pc,                  \* where each command invocation of the extension stands
    selectedFolder,      \* IndexCommand.execute: the folder the user selected
    isSyncing,           \* SyncCommand.isSyncing
    writer,              \* Context: per codebase, the writer operation in progress
    event,               \* the outcome of the last writer request
    tree,                \* the files under the codebase directory: relative path -> content
    store,               \* Context: the collection of the codebase, and its chunks
    snapshot,            \* File Synchronizer: the snapshot persisted for the codebase
    run,                 \* the last indexing run, or the edit of the tree since
    activation,          \* the extension: not yet activated, active, or deactivated
    autoSyncEnabled,     \* the setting semanticCodeSearch.autoSync.enabled
    autoSyncDisposable,  \* extension: the timer its disposable stops, or 0 for null
    intervals,           \* the interval timers set and not cleared
    reactions            \* the timers whose disposable a pending then-callback holds

storeVars == <<env, cfg, dirs, disk, db, currentCodebasePath, dimension, out, upserted,
               created, nops, mappings, paths>>
cmdVars == <<pc, selectedFolder, isSyncing, writer, event>>
ctxVars == <<tree, store, snapshot, run>>
extVars == <<activation, autoSyncEnabled, autoSyncDisposable, intervals, reactions>>
vars == <<storeVars, cmdVars, ctxVars, extVars>>

-----------------------------------------------------------------------------
(* Bounds *)

MaxOps == 3
\* The largest number of chunks of the large collection (more than the 50 dense candidates
\* hybridSearch fuses)
MaxChunks == 52
MaxFtsRows == 2

-----------------------------------------------------------------------------
(* Naming: md5, path hashes, collection names, database files *)

HexDigits == 0..15

\* crypto.createHash('md5').update(s).digest('hex'), for the strings of the model
Md5Hex(s) ==
    CASE s = "/w/ts" -> <<0,12,1,11,15,15,10,10,3,0,12,10,4,8,6,10,6,0,7,2,9,5,5,9,6,10,2,15,8,1,0,4>>
      [] s = "/w/py" -> <<0,12,6,13,3,10,11,11,11,6,4,15,6,5,13,9,9,6,10,1,7,6,15,10,2,4,1,8,13,12,2,15>>
      [] s = "ts"    -> <<4,13,6,8,2,14,12,4,14,14,13,2,7,12,5,3,8,4,9,7,5,8,11,12,1,3,11,6,14,1,7,9>>
      [] OTHER       -> <<12,14,7,7,12,1,3,1,11,8,4,15,7,0,3,4,7,10,10,0,14,13,1,0,9,10,10,5,7,3,2,14>>

\* path.resolve(p) with the process working directory /w
Resolve(p) == IF p = "ts" THEN "/w/ts" ELSE p

HashLen == 8
LongHashLen == 16

\* A getPathHash that hashes the path as given
getPathHashAsGiven(codebasePath) == SubSeq(Md5Hex(codebasePath), 1, HashLen)

\* vector-paths.ts getPathHash
getPathHash(codebasePath) == SubSeq(Md5Hex(Resolve(codebasePath)), 1, HashLen)

NoName == [prefix |-> "", text |-> "", hex |-> <<>>]
NoFile == [dir |-> "", base |-> <<>>]

\* A codebase path used directly as a collection name (as the e2e tests do)
RawName(p) == [prefix |-> "", text |-> p, hex |-> <<>>]

\* Context.getCollectionName: (hybrid_)code_chunks_<first 8 hex of md5(path)>
getCollectionName(p, isHybrid) ==
    [prefix |-> IF isHybrid THEN "hybrid_code_chunks_" ELSE "code_chunks_",
     text   |-> "",
     hex    |-> SubSeq(Md5Hex(Resolve(p)), 1, HashLen)]

\* collectionName.match(/^(?:hybrid_)?code_chunks_([a-f0-9]{8})$/)
HashMatch(name) ==
    /\ name.prefix \in {"hybrid_code_chunks_", "code_chunks_"}
    /\ name.text = ""
    /\ Len(name.hex) = HashLen
    /\ \A i \in 1..Len(name.hex) : name.hex[i] \in HexDigits

HomeDir == "home/.code-context/vectors"

\* sqlite-vec-vectordb.ts getVectorDbDir
getVectorDbDir == IF env # "" THEN env ELSE HomeDir

\* sqlite-vec-vectordb.ts getDbPathFromCollection (the returned path)
getDbPathFromCollection(collectionName) ==
    IF HashMatch(collectionName)
    THEN [dir |-> getVectorDbDir, base |-> collectionName.hex]
    ELSE [dir |-> getVectorDbDir,
          base |-> SubSeq(Md5Hex(collectionName.text), 1, LongHashLen)]

\* The file initializeDb opens: this.config.dbPath || getDbPathFromCollection(codebasePath)
DbPathOf(collectionName) ==
    IF cfg # "" THEN [dir |-> cfg, base |-> <<>>]
    ELSE getDbPathFromCollection(collectionName)

\* vector-paths.ts VECTOR_DB_DIR and the path getVectorDbPath returns
VECTOR_DB_DIR == HomeDir
VectorDbFile(codebasePath) ==
    [dir |-> VECTOR_DB_DIR, base |-> getPathHash(Resolve(codebasePath))]

-----------------------------------------------------------------------------
(* Tables of one database file *)

\* A freshly opened database file: no table
EmptyDb == [hasDocuments |-> FALSE, dim |-> 0, documents |-> {},
            hasFts |-> FALSE, documents_fts |-> <<>>]

\* Chunks given to insert / insertHybrid
Ids == {"a", "b"}
Variants ==
    { [vector |-> <<1, 0>>, content |-> "y", fileExtension |-> ".ts"],
      [vector |-> <<0, 1>>, content |-> "x", fileExtension |-> ".py"],
      [vector |-> <<1>>,    content |-> "x", fileExtension |-> ".ts"] }
Docs == { [id |-> i, vector |-> v.vector, content |-> v.content,
           fileExtension |-> v.fileExtension] : i \in Ids, v \in Variants }
\* Batches handed to insert and insertHybrid: one chunk, or chunk "a" followed by another
\* chunk (of the same id or not, of the same vector length or not)
FirstDoc == [id |-> "a", vector |-> <<1, 0>>, content |-> "y", fileExtension |-> ".ts"]
Batches == { <<d>> : d \in Docs } \cup { <<FirstDoc, e>> : e \in Docs }

Dims == {1, 2}
QueryVectors == { <<1, 0>>, <<0, 1>>, <<1>> }
QueryTexts == { "", "x", "(" }

\* The row the FTS5 table receives for a chunk
FtsRow(doc) == [id |-> doc.id, content |-> doc.content, fileExtension |-> doc.fileExtension]

RowIds(rows) == { r.id : r \in rows }
RowOf(rows, id) == CHOOSE r \in rows : r.id = id

-----------------------------------------------------------------------------
(* Filter expressions *)

\* Milvus-style filter expressions of the model: none, or field in [values]
NoFilter == [kind |-> "none", field |-> "", values |-> {}]
ExtIn(exts) == [kind |-> "in", field |-> "fileExtension", values |-> exts]
\* A filter expression on the id column: id in ["a"]
IdIn(ids) == [kind |-> "in", field |-> "id", values |-> ids]
Filters == { NoFilter, ExtIn({".ts"}), IdIn({"a"}) }

\* convertFilterExpr: field in ["v"] becomes field IN ('v'); everything else is passed through
convertFilterExpr(filterExpr) ==
    IF filterExpr.kind = "in"
    THEN [kind |-> "sqlIN", field |-> filterExpr.field, values |-> filterExpr.values]
    ELSE filterExpr

\* SQLite's evaluation of the WHERE clause on one row of documents
Where(sql, row) ==
    IF sql.kind = "sqlIN" THEN row[sql.field] \in sql.values ELSE TRUE

\* options?.filterExpr is truthy
HasFilter(filterExpr) == filterExpr.kind # "none"

Filtered(rows, filterExpr) ==
    IF HasFilter(filterExpr)
    THEN { r \in rows : Where(convertFilterExpr(filterExpr), r) }
    ELSE rows

-----------------------------------------------------------------------------
(* Cosine distance (sqlite-vec vec_distance_cosine), compared exactly *)

RECURSIVE Dot(_, _)
Dot(a, b) == IF a = <<>> THEN 0 ELSE Head(a) * Head(b) + Dot(Tail(a), Tail(b))

\* x / sqrt(m) < y / sqrt(n), for m, n > 0
RatioLess(x, m, y, n) ==
    IF x < 0 /\ y >= 0 THEN TRUE
    ELSE IF x >= 0 /\ y < 0 THEN FALSE
    ELSE IF x >= 0 THEN x * x * n < y * y * m
    ELSE x * x * n > y * y * m

\* distance(v, q) < distance(w, q): the cosine of v is the larger one
Closer(v, w, q) == RatioLess(Dot(w, q), Dot(w, w), Dot(v, q), Dot(v, v))

SameDistance(v, w, q) == ~Closer(v, w, q) /\ ~Closer(w, v, q)

-----------------------------------------------------------------------------
(* Sequences *)

Min(a, b) == IF a < b THEN a ELSE b

Range(s) == { s[i] : i \in DOMAIN s }

\* s.slice(0, n)
Slice(s, n) == SubSeq(s, 1, Min(n, Len(s)))

\* All orders in which the rows of a set can be returned
Orders(S) ==
    { s \in [1..Cardinality(S) -> S] : \A i, j \in 1..Cardinality(S) : i # j => s[i] # s[j] }

-----------------------------------------------------------------------------
(* The connection of a store instance: initializeDb *)

NoDb == [file |-> NoFile, open |-> FALSE]

\* Codebase paths handed to the program: two absolute paths, and /w/ts written relative to
\* the working directory
Paths == { "/w/ts", "/w/py", "ts" }

\* The names the store is addressed with for a codebase: the collection names of Context,
\* and the codebase path itself
Addresses(p) == { getCollectionName(p, TRUE), getCollectionName(p, FALSE), RawName(p) }
Names == UNION { Addresses(p) : p \in Paths }

\* Collections the store is addressed with in the store specifications
Colls == { getCollectionName("/w/ts", TRUE), getCollectionName("/w/py", TRUE) }

\* The path of the database file of /w/py in the default vectors directory
PyDbPath == "home/.code-context/vectors/0c6d3abb.db"
PathOf(file) == IF file = VectorDbFile("/w/py") THEN PyDbPath ELSE ""

\* new Database(dbPath) throws when the path names a directory: a configured dbPath that
\* is one, or a directory standing where the database file would be
OpenFails(file) == (file.dir \in dirs /\ file.base = <<>>) \/ PathOf(file) \in dirs

\* initializeDb returns the handle it already holds
Reuse(name) == db.file # NoFile /\ currentCodebasePath = name

\* initializeDb opens a new connection
Opens(name) == ~Reuse(name) /\ ~OpenFails(DbPathOf(name))

\* this.db after initializeDb(name); a handle that was closed for a switch stays assigned
\* when the new open throws
dbAfter(name) ==
    IF Reuse(name) THEN db
    ELSE IF OpenFails(DbPathOf(name)) THEN [db EXCEPT !.open = FALSE]
    ELSE [file |-> DbPathOf(name), open |-> TRUE]

ccpAfter(name) == IF Opens(name) THEN name ELSE currentCodebasePath

\* getDbPathFromCollection creates the vectors directory; it runs only when dbPath is unset
dirsAfter(name) ==
    IF ~Reuse(name) /\ cfg = "" THEN dirs \cup {getVectorDbDir} ELSE dirs

\* new Database(dbPath) creates the file when it does not exist
diskAfter(name) ==
    IF Opens(name) /\ DbPathOf(name) \notin DOMAIN disk
    THEN DbPathOf(name) :> EmptyDb @@ disk
    ELSE disk

\* initializeDb throws: the new connection cannot be opened
InitThrows(name) == ~Reuse(name) /\ OpenFails(DbPathOf(name))

\* initializeDb throws, or returns a handle that is closed (every statement on it throws)
NoHandle(name) == ~dbAfter(name).open

\* The tables the operation works on
TablesOf(name) == diskAfter(name)[dbAfter(name).file]

\* A call of a store operation and what it did: threw, or returned hits (a list) or flag
\* (a boolean); lists holds the two ranked lists hybridSearch fused
NoArgs == [none |-> TRUE]
NoLists == [vectorResults |-> <<>>, textResults |-> <<>>]
Call(op, name, args) == [op |-> op, name |-> name, args |-> args]
Ret(threw, hits, flag, lists) == [threw |-> threw, hits |-> hits, flag |-> flag, lists |-> lists]
Ok == Ret(FALSE, <<>>, FALSE, NoLists)
Thrown == Ret(TRUE, <<>>, FALSE, NoLists)
Threw(threw) == Ret(threw, <<>>, FALSE, NoLists)
Result(call, ret) == [call |-> call, ret |-> ret]

\* A run of the model is a sequence of at most MaxOps operations, followed by at most one
\* listing read (search, hybridSearch, query): what a listing read leaves behind in the
\* store instance is what hasCollection leaves behind.
Spend == nops < MaxOps /\ nops' = nops + 1
Finish == nops <= MaxOps /\ nops' = MaxOps + 1

\* History: the dimension each collection was last created with (0: never created, or
\* dropped since)
CreatedAfter(call) ==
    IF call.op \in {"createCollection", "createHybridCollection"}
    THEN [created EXCEPT ![call.name] = call.args.D]
    ELSE IF call.op = "dropCollection" THEN [created EXCEPT ![call.name] = 0]
    ELSE created

\* One store operation: initializeDb(name), then the tables become `tables` and the
\* operation returns or throws as `ret` says
StoreStep(call, tables, dim, ups, ret) ==
    LET name == call.name IN
        /\ db' = dbAfter(name)
        /\ currentCodebasePath' = ccpAfter(name)
        /\ dirs' = dirsAfter(name)
        /\ disk' = IF NoHandle(name) THEN diskAfter(name)
                   ELSE [diskAfter(name) EXCEPT ![dbAfter(name).file] = tables]
        /\ dimension' = IF InitThrows(name) THEN dimension ELSE dim
        /\ upserted' = IF NoHandle(name) THEN upserted ELSE [upserted EXCEPT ![name] = ups]
        /\ created' = IF NoHandle(name) THEN created ELSE CreatedAfter(call)
        /\ out' = IF NoHandle(name) THEN Result(call, Thrown) ELSE Result(call, ret)
        /\ UNCHANGED <<env, cfg, mappings, paths, cmdVars, ctxVars, extVars>>

\* An operation that may change the tables
WriteStep(call, tables, dim, ups, ret) ==
    /\ Spend
    /\ StoreStep(call, tables, dim, ups, ret)

-----------------------------------------------------------------------------
(* Collection management *)

createCollection(name, D) ==
    WriteStep(Call("createCollection", name, [D |-> D]),
              [TablesOf(name) EXCEPT !.hasDocuments = TRUE, !.dim = D, !.documents = {}],
              D, {}, Ok)

createHybridCollection(name, D) ==
    WriteStep(Call("createHybridCollection", name, [D |-> D]),
              [hasDocuments |-> TRUE, dim |-> D, documents |-> {},
               hasFts |-> TRUE, documents_fts |-> <<>>],
              D, {}, Ok)

dropCollection(name) ==
    WriteStep(Call("dropCollection", name, NoArgs), EmptyDb, dimension, {}, Ok)

\* hasCollection catches every error and answers false
hasCollection(name) ==
    /\ Spend
    /\ db' = dbAfter(name)
    /\ currentCodebasePath' = ccpAfter(name)
    /\ dirs' = dirsAfter(name)
    /\ disk' = diskAfter(name)
    /\ out' = Result(Call("hasCollection", name, NoArgs),
                     Ret(FALSE, <<>>, ~NoHandle(name) /\ TablesOf(name).hasDocuments, NoLists))
    /\ UNCHANGED <<env, cfg, dimension, upserted, created, mappings, paths, cmdVars, ctxVars, extVars>>

close ==
    /\ Spend
    /\ db.file # NoFile
    /\ db' = NoDb
    /\ currentCodebasePath' = NoName
    /\ out' = Result(Call("close", NoName, NoArgs), Ok)
    /\ UNCHANGED <<env, cfg, dirs, disk, dimension, upserted, created, mappings, paths,
                   cmdVars, ctxVars, extVars>>

-----------------------------------------------------------------------------
(* insert, insertHybrid, delete *)

\* The loop of insert over the batch: DELETE the id, then INSERT the row; the INSERT of a
\* vector whose length is not the table's dimension throws and ends the loop.  Every
\* statement commits on its own (no transaction).
RECURSIVE InsertLoop(_, _, _)
InsertLoop(rows, dim, docs) ==
    IF docs = <<>> THEN [rows |-> rows, threw |-> FALSE]
    ELSE LET doc == Head(docs)
             deleted == { r \in rows : r.id # doc.id }
         IN IF Len(doc.vector) # dim
            THEN [rows |-> deleted, threw |-> TRUE]
            ELSE InsertLoop(deleted \cup {doc}, dim, Tail(docs))

\* History: the chunks upserted so far; an upsert that threw upserted nothing
RECURSIVE UpsertLoop(_, _, _)
UpsertLoop(ups, dim, docs) ==
    IF docs = <<>> THEN ups
    ELSE LET doc == Head(docs)
         IN IF Len(doc.vector) # dim THEN ups
            ELSE UpsertLoop({ r \in ups : r.id # doc.id } \cup {doc}, dim, Tail(docs))

\* The tables after insert(name, docs): prepare throws when documents does not exist
InsertTables(t, docs) ==
    IF ~t.hasDocuments THEN t
    ELSE [t EXCEPT !.documents = InsertLoop(t.documents, t.dim, docs).rows]

InsertThrows(t, docs) ==
    \/ ~t.hasDocuments
    \/ InsertLoop(t.documents, t.dim, docs).threw

InsertUpserted(t, ups, docs) ==
    IF ~t.hasDocuments THEN ups ELSE UpsertLoop(ups, t.dim, docs)

insert(name, docs) ==
    WriteStep(Call("insert", name, [docs |-> docs]),
              InsertTables(TablesOf(name), docs),
              dimension,
              InsertUpserted(TablesOf(name), upserted[name], docs),
              Threw(InsertThrows(TablesOf(name), docs)))

RECURSIVE FtsRows(_)
FtsRows(docs) == IF docs = <<>> THEN <<>> ELSE <<FtsRow(Head(docs))>> \o FtsRows(Tail(docs))

\* insertHybrid: insert, then INSERT OR REPLACE into documents_fts inside one transaction.
\* The FTS5 table has no key on id (id UNINDEXED), so every row is appended.  The statement
\* is prepared outside the try block: a missing documents_fts throws after the dense rows
\* are written.  A failure inside the transaction (ftsFails) rolls it back and is swallowed.
InsertHybridTables(t, docs, ftsFails) ==
    LET t1 == InsertTables(t, docs)
    IN IF InsertThrows(t, docs) \/ ~t1.hasFts \/ ftsFails THEN t1
       ELSE [t1 EXCEPT !.documents_fts = @ \o FtsRows(docs)]

InsertHybridThrows(t, docs) == InsertThrows(t, docs) \/ ~t.hasFts

insertHybrid(name, docs, ftsFails) ==
    /\ nops < MaxOps
    /\ ~NoHandle(name) =>
           Len(TablesOf(name).documents_fts) + Len(docs) <= MaxFtsRows
    /\ WriteStep(Call("insertHybrid", name, [docs |-> docs, ftsFails |-> ftsFails]),
                 InsertHybridTables(TablesOf(name), docs, ftsFails),
                 dimension,
                 InsertUpserted(TablesOf(name), upserted[name], docs),
                 Threw(InsertHybridThrows(TablesOf(name), docs)))

\* s with the rows whose id is in ids removed
RECURSIVE WithoutIds(_, _)
WithoutIds(s, ids) ==
    IF s = <<>> THEN <<>>
    ELSE IF Head(s).id \in ids THEN WithoutIds(Tail(s), ids)
    ELSE <<Head(s)>> \o WithoutIds(Tail(s), ids)

\* delete without the full-text DELETE
DeleteTablesNoFts(t, ids) ==
    IF ~t.hasDocuments THEN t
    ELSE [t EXCEPT !.documents = { r \in @ : r.id \notin ids }]

\* delete: the full-text DELETE runs first inside try/catch, then the DELETE on documents,
\* whose prepare throws when the table does not exist
DeleteTables(t, ids) ==
    LET t1 == IF t.hasFts THEN [t EXCEPT !.documents_fts = WithoutIds(@, ids)] ELSE t
    IN IF ~t.hasDocuments THEN t1
       ELSE [t1 EXCEPT !.documents = { r \in @ : r.id \notin ids }]

delete(name, ids) ==
    WriteStep(Call("delete", name, [ids |-> ids]),
              DeleteTables(TablesOf(name), ids),
              dimension,
              IF TablesOf(name).hasDocuments
              THEN { r \in upserted[name] : r.id \notin ids } ELSE upserted[name],
              Threw(~TablesOf(name).hasDocuments))

-----------------------------------------------------------------------------
(* search, hybridSearch, query *)

DefaultTopK == 10
DenseTopK == 50
FtsLimit == 50
RrfK == 60

RECURSIVE DenseOrders(_, _)
\* Orders in which SQLite can return rows ORDER BY the cosine distance to q: a nearest row
\* first, rows at the same distance in an unspecified order
DenseOrders(rows, q) ==
    IF rows = {} THEN { <<>> }
    ELSE UNION { { <<r>> \o s : s \in DenseOrders(rows \ {r}, q) } :
                   r \in { x \in rows : \A y \in rows : ~Closer(y.vector, x.vector, q) } }

\* The statement of search throws: no documents table, or a row that passes the WHERE
\* clause has a vector of another length than q (vec_distance_cosine)
SearchThrows(t, q, filterExpr) ==
    \/ ~t.hasDocuments
    \/ \E r \in Filtered(t.documents, filterExpr) : Len(r.vector) # Len(q)

\* search with the WHERE clause applied to the rows that ORDER BY and LIMIT left
SearchResultsFilterLast(t, q, topK, filterExpr) ==
    { SelectSeq(Slice(s, IF topK = 0 THEN DefaultTopK ELSE topK),
                LAMBDA r : r \in Filtered({r}, filterExpr)) :
        s \in DenseOrders({ r \in t.documents : Len(r.vector) = Len(q) }, q) }

\* The lists search can return
SearchResults(t, q, topK, filterExpr) ==
    { Slice(s, IF topK = 0 THEN DefaultTopK ELSE topK) :
        s \in DenseOrders(Filtered(t.documents, filterExpr), q) }

\* A returned chunk (the score of search, the cosine distance, is not represented)
RECURSIVE Hits(_)
Hits(rows) ==
    IF rows = <<>> THEN <<>>
    ELSE <<[id |-> Head(rows).id, content |-> Head(rows).content,
            fileExtension |-> Head(rows).fileExtension]>> \o Hits(Tail(rows))

\* A read leaves the tables as they are
ReadStep(call, ret) ==
    /\ Finish
    /\ StoreStep(call, TablesOf(call.name), dimension, upserted[call.name], ret)

search(name, q, topK, filterExpr) ==
    LET call == Call("search", name, [q |-> q, topK |-> topK, filterExpr |-> filterExpr])
    IN /\ nops <= MaxOps
       /\ IF NoHandle(name) \/ SearchThrows(TablesOf(name), q, filterExpr)
          THEN ReadStep(call, Thrown)
          ELSE \E rows \in SearchResults(TablesOf(name), q, topK, filterExpr) :
                  ReadStep(call, Ret(FALSE, Hits(rows), FALSE, NoLists))

\* query: rows passing the filter, in an unspecified order, at most `limit` when given
QueryThrows(t) == ~t.hasDocuments

QueryResults(t, filter, limit) ==
    { IF limit = 0 THEN s ELSE Slice(s, limit) : s \in Orders(Filtered(t.documents, filter)) }

query(name, filter, limit) ==
    LET call == Call("query", name, [filter |-> filter, limit |-> limit])
    IN /\ nops <= MaxOps
       /\ IF NoHandle(name) \/ QueryThrows(TablesOf(name))
          THEN ReadStep(call, Thrown)
          ELSE \E rows \in QueryResults(TablesOf(name), filter, limit) :
                  ReadStep(call, Ret(FALSE, Hits(rows), FALSE, NoLists))

-----------------------------------------------------------------------------
(* hybridSearch: Reciprocal Rank Fusion *)

RECURSIVE Gcd(_, _)
Gcd(a, b) == IF b = 0 THEN a ELSE Gcd(b, a % b)

RECURSIVE LcmUpTo(_)
\* least common multiple of RrfK + 1 .. RrfK + n
LcmUpTo(n) ==
    IF n = 0 THEN 1
    ELSE (LcmUpTo(n - 1) \div Gcd(LcmUpTo(n - 1), RrfK + n)) * (RrfK + n)

\* The lexical part of a score is kept as an exact multiple of 1 / Scale: the lexical list
\* is not longer than the full-text table
Scale == LcmUpTo(MaxFtsRows)

\* 1.0 / (k + index + 1), for the 0-based index of the lexical list
RrfTerm(index) == Scale \div (RrfK + index + 1)

\* A score: 1 / dense (0: no dense term) + text / Scale.  The ids of vectorResults are
\* distinct, id being the primary key of documents, so the dense loop adds one term at most
Score(dense, text) == [dense |-> dense, text |-> text]
Den(s) == IF s.dense = 0 THEN 1 ELSE s.dense
Num(s) == s.text * Den(s) + (IF s.dense = 0 THEN 0 ELSE Scale)
\* s1 > s2 and s1 = s2, as numbers
ScoreAbove(s1, s2) == Num(s1) * Den(s2) > Num(s2) * Den(s1)
ScoreEqual(s1, s2) == Num(s1) * Den(s2) = Num(s2) * Den(s1)

VectorRequests ==
    { [present |-> FALSE, data |-> <<>>, limit |-> 0] } \cup
    { [present |-> TRUE, data |-> <<1, 0>>, limit |-> l] : l \in {0, 2} } \cup
    { [present |-> TRUE, data |-> <<0, 1>>, limit |-> 0] }
\* A vector request together with options.limit (0: not given)
HybridRequests ==
    { [vreq |-> v, limit |-> 0] : v \in VectorRequests } \cup
    { [vreq |-> v, limit |-> 1] : v \in { w \in VectorRequests : w.present /\ w.limit = 0 } }
TextRequests ==
    { [present |-> FALSE, data |-> ""] } \cup
    { [present |-> TRUE, data |-> txt] : txt \in QueryTexts }

\* FTS5: the row matches the query (a one-token query against the content column)
Matches(row, queryText) == row.content = queryText
\* FTS5 rejects the query text as malformed
FtsSyntaxError(queryText) == queryText = "("

\* textResults: the ids of the matching full-text rows ORDER BY rank (rows of equal rank in
\* an unspecified order); empty when the query is skipped or throws
TextResults(t, treq) ==
    IF ~treq.present \/ treq.data = "" \/ ~t.hasFts \/ FtsSyntaxError(treq.data)
    THEN { <<>> }
    ELSE { [i \in DOMAIN s |-> t.documents_fts[s[i]].id] :
             s \in { o \in Orders({ i \in DOMAIN t.documents_fts :
                                      Matches(t.documents_fts[i], treq.data) }) :
                       Len(o) <= FtsLimit } }

RECURSIVE SumTerms(_, _, _)
\* the sum of RrfTerm(i - 1) over the positions i >= from of list that hold id
SumTerms(list, id, from) ==
    IF from > Len(list) THEN 0
    ELSE (IF list[from] = id THEN RrfTerm(from - 1) ELSE 0) + SumTerms(list, id, from + 1)

\* k + index + 1 for the index of id in vectorResults (0: not in the list)
DenseTerm(denseIds, id) ==
    IF \E i \in DOMAIN denseIds : denseIds[i] = id
    THEN RrfK + (CHOOSE i \in DOMAIN denseIds : denseIds[i] = id)
    ELSE 0

\* scores.get(id) after both forEach loops
RrfScore(denseIds, textIds, id) == Score(DenseTerm(denseIds, id), SumTerms(textIds, id, 1))

RECURSIVE Dedup(_, _)
\* the keys of the scores Map in insertion order
Dedup(list, seen) ==
    IF list = <<>> THEN <<>>
    ELSE IF Head(list) \in seen THEN Dedup(Tail(list), seen)
    ELSE <<Head(list)>> \o Dedup(Tail(list), seen \cup {Head(list)})

RECURSIVE InsertByScore(_, _, _, _)
\* key put into a list sorted by descending score, behind the keys of the same score
InsertByScore(sorted, key, denseIds, textIds) ==
    IF sorted = <<>> THEN <<key>>
    ELSE IF ScoreAbove(RrfScore(denseIds, textIds, key),
                       RrfScore(denseIds, textIds, Head(sorted)))
         THEN <<key>> \o sorted
         ELSE <<Head(sorted)>> \o InsertByScore(Tail(sorted), key, denseIds, textIds)

RECURSIVE SortInto(_, _, _, _)
SortInto(sorted, keys, denseIds, textIds) ==
    IF keys = <<>> THEN sorted
    ELSE SortInto(InsertByScore(sorted, Head(keys), denseIds, textIds), Tail(keys),
                  denseIds, textIds)

\* Array.prototype.sort((a, b) => b[1] - a[1]): descending score, stable (entries of the
\* same score keep the order they have in keys)
SortByScore(keys, denseIds, textIds) == SortInto(<<>>, keys, denseIds, textIds)

\* options?.limit || vectorRequest.limit || 10
HybridLimit(optLimit, vreq) ==
    IF optLimit # 0 THEN optLimit ELSE IF vreq.limit # 0 THEN vreq.limit ELSE DefaultTopK

RECURSIVE Ids1(_)
Ids1(rows) == IF rows = <<>> THEN <<>> ELSE <<Head(rows).id>> \o Ids1(Tail(rows))

\* sortedIds without .slice(0, limit)
SortedIdsUncut(dense, textIds, limit) ==
    SortByScore(Dedup(Ids1(dense) \o textIds, {}), Ids1(dense), textIds)

\* sortedIds
SortedIds(dense, textIds, limit) ==
    Slice(SortByScore(Dedup(Ids1(dense) \o textIds, {}), Ids1(dense), textIds), limit)

\* the returned list: each id of sortedIds joined to its row of documents
RECURSIVE HybridHits(_, _, _, _)
HybridHits(ids, rows, denseIds, textIds) ==
    IF ids = <<>> THEN <<>>
    ELSE LET r == RowOf(rows, Head(ids))
         IN <<[id |-> r.id, content |-> r.content, fileExtension |-> r.fileExtension,
               score |-> RrfScore(denseIds, textIds, Head(ids))]>>
            \o HybridHits(Tail(ids), rows, denseIds, textIds)

hybridSearch(name, vreq, treq, optLimit, filterExpr) ==
    LET call == Call("hybridSearch", name,
                     [vreq |-> vreq, treq |-> treq, limit |-> optLimit,
                      filterExpr |-> filterExpr])
    IN /\ nops <= MaxOps
       /\ IF \/ NoHandle(name)
             \/ ~vreq.present
             \/ SearchThrows(TablesOf(name), vreq.data, filterExpr)
          THEN ReadStep(call, Thrown)
          ELSE \E dense \in SearchResults(TablesOf(name), vreq.data, DenseTopK, filterExpr),
                  textIds \in TextResults(TablesOf(name), treq) :
                  LET ids == SortedIds(dense, textIds, HybridLimit(optLimit, vreq))
                      lists == [vectorResults |-> Ids1(dense), textResults |-> textIds]
                      \* docMap.get(id) is undefined for an id without a row: doc.id throws
                      missing == Range(ids) \ RowIds(TablesOf(name).documents) # {}
                  IN ReadStep(call,
                              IF missing THEN Ret(TRUE, <<>>, FALSE, lists)
                              ELSE Ret(FALSE,
                                       HybridHits(ids, TablesOf(name).documents,
                                                  Ids1(dense), textIds),
                                       FALSE, lists))

-----------------------------------------------------------------------------
(* The path registry: vector-paths.ts, and listCollections of the store *)

NoMappings == [h \in {} |-> ""]

\* loadPathMappings()[hash]; "" stands for undefined
getOriginalPath(hash) == IF hash \in DOMAIN mappings THEN mappings[hash] ELSE ""

\* A registry that writes the new mapping without loading the recorded ones
savePathMappingAlone(m, hash, originalPath) == [h \in {hash} |-> originalPath]

\* mappings[hash] = originalPath, written back to path-mappings.json
savePathMapping(m, hash, originalPath) ==
    [h \in DOMAIN m \cup {hash} |-> IF h = hash THEN originalPath ELSE m[h]]

\* delete mappings[hash], written back to path-mappings.json
WithoutMappings(m, hashes) == [h \in DOMAIN m \ hashes |-> m[h]]

\* fs.unlinkSync of database files
Unlinked(files) == [f \in DOMAIN disk \ files |-> disk[f]]

\* The mappings after getVectorDbPath(p)
MappingsAfter(p) == savePathMapping(mappings, getPathHash(Resolve(p)), Resolve(p))

\* What a registry function returns: a file, a boolean, a size or a set of entries.  The
\* size of a database file that exists is positive; 1 stands for it.
RegRet(file, flag, size, entries) ==
    [threw |-> FALSE, file |-> file, flag |-> flag, size |-> size, entries |-> entries]

\* One registry call; every one of them runs ensureVectorDirectory
RegStep(call, ret, files, maps) ==
    /\ Spend
    /\ dirs' = dirs \cup {VECTOR_DB_DIR}
    /\ disk' = files
    /\ mappings' = maps
    /\ out' = Result(call, ret)
    /\ UNCHANGED <<env, cfg, db, currentCodebasePath, dimension, upserted, created, paths,
                   cmdVars, ctxVars, extVars>>

getVectorDbPath(p) ==
    RegStep(Call("getVectorDbPath", NoName, [path |-> p]),
            RegRet(VectorDbFile(p), FALSE, 0, {}), disk, MappingsAfter(p))

vectorDbExists(p) ==
    RegStep(Call("vectorDbExists", NoName, [path |-> p]),
            RegRet(NoFile, VectorDbFile(p) \in DOMAIN disk, 0, {}), disk, MappingsAfter(p))

getVectorDbSize(p) ==
    RegStep(Call("getVectorDbSize", NoName, [path |-> p]),
            RegRet(NoFile, FALSE, IF VectorDbFile(p) \in DOMAIN disk THEN 1 ELSE 0, {}),
            disk, MappingsAfter(p))

\* The entries of listAllVectorDbs (their order, by modification time, is not represented)
VectorDbs ==
    { [hash |-> f.base, path |-> f, originalPath |-> getOriginalPath(f.base)] :
        f \in { g \in DOMAIN disk : g.dir = VECTOR_DB_DIR } }

listAllVectorDbs ==
    RegStep(Call("listAllVectorDbs", NoName, NoArgs),
            RegRet(NoFile, FALSE, 0, VectorDbs), disk, mappings)

\* listCollections of the store: one hybrid collection name per listed database
listCollections ==
    RegStep(Call("listCollections", NoName, NoArgs),
            RegRet(NoFile, FALSE, 0,
                   { [prefix |-> "hybrid_code_chunks_", text |-> "", hex |-> e.hash] :
                       e \in VectorDbs }),
            disk, mappings)

\* The databases whose recorded codebase path no longer exists
Orphans == { e \in VectorDbs : e.originalPath # "" /\ e.originalPath \notin paths }

\* Removing the file of a connection that is open is left out: what it does depends on
\* the platform
NotOpen(files) == ~(db.open /\ db.file \in files)

cleanupOrphanedDatabases ==
    /\ NotOpen({ e.path : e \in Orphans })
    /\ RegStep(Call("cleanupOrphanedDatabases", NoName, NoArgs),
               RegRet(NoFile, FALSE, 0, { e.hash : e \in Orphans }),
               Unlinked({ e.path : e \in Orphans }),
               WithoutMappings(mappings, { e.hash : e \in Orphans }))

\* deleteVectorDb: getVectorDbPath records the mapping before the file is looked for
deleteVectorDb(p) ==
    /\ NotOpen({VectorDbFile(p)})
    /\ IF VectorDbFile(p) \in DOMAIN disk
       THEN RegStep(Call("deleteVectorDb", NoName, [path |-> p]),
                    RegRet(NoFile, TRUE, 0, {}),
                    Unlinked({VectorDbFile(p)}),
                    WithoutMappings(MappingsAfter(p), {getPathHash(p)}))
       ELSE RegStep(Call("deleteVectorDb", NoName, [path |-> p]),
                    RegRet(NoFile, FALSE, 0, {}), disk, MappingsAfter(p))

\* The environment: a codebase directory is removed
RemoveCodebase(p) ==
    /\ p \in paths
    /\ paths' = paths \ {p}
    /\ UNCHANGED <<env, cfg, dirs, disk, db, currentCodebasePath, dimension, out, upserted, created,
                   nops, mappings, cmdVars, ctxVars, extVars>>

-----------------------------------------------------------------------------
(* The commands of the extension: IndexCommand, SyncCommand and the auto-sync timer *)

\* The workspace folders; SyncCommand works on the first one
Folders == { "/w/ts", "/w/py" }
FirstFolder == "/w/ts"

\* The invocations that are followed: IndexCommand.execute, SyncCommand.execute, and
\* SyncCommand.executeSilent called by the interval timer
Procs == { "index", "sync", "silent" }

\* The writer operations of Context
WriterOps == { "clearIndex", "indexCodebase", "reindexByChange" }

\* The codebase an invocation works on
FolderOf(p) == IF p = "index" THEN selectedFolder ELSE FirstFolder

NoEvent == [proc |-> "", op |-> "", outcome |-> ""]

InitCommands ==
    /\ pc = [p \in Procs |-> "idle"]
    /\ selectedFolder = FirstFolder
    /\ isSyncing = FALSE
    /\ writer = [c \in Folders |-> "none"]
    /\ event = NoEvent

\* A Context without the lock: every writer operation is admitted
AdmitsAny(c) == TRUE

\* Context: the in-process lock keyed by codebase id admits a writer operation when no
\* other one is in progress on the codebase
Admits(c) == writer[c] = "none"

\* Context: a writer operation is requested; it starts, or is rejected with the busy error
RequestWriter(p, op, busy) ==
    IF Admits(FolderOf(p))
    THEN /\ writer' = [writer EXCEPT ![FolderOf(p)] = p]
         /\ pc' = [pc EXCEPT ![p] = op]
         /\ event' = [proc |-> p, op |-> op, outcome |-> "started"]
    ELSE /\ pc' = [pc EXCEPT ![p] = busy]
         /\ event' = [proc |-> p, op |-> op, outcome |-> "busy"]
         /\ UNCHANGED writer

\* Context: the writer operation of p ends (resolves or rejects)
ReleaseWriter(p) == writer' = [writer EXCEPT ![FolderOf(p)] = "none"]

\* IndexCommand.execute up to its first await: the folder is chosen, the confirmation asked
IndexExecute(folder) ==
    /\ pc["index"] = "idle"
    /\ pc' = [pc EXCEPT !["index"] = "confirm"]
    /\ selectedFolder' = folder
    /\ UNCHANGED <<storeVars, ctxVars, extVars, isSyncing, writer, event>>

\* The user answers: anything but Yes returns; Yes calls context.clearIndex
IndexConfirm(yes) ==
    /\ pc["index"] = "confirm"
    /\ IF yes THEN RequestWriter("index", "clearIndex", "failed")
       ELSE /\ pc' = [pc EXCEPT !["index"] = "idle"]
            /\ UNCHANGED <<writer, event>>
    /\ UNCHANGED <<storeVars, ctxVars, extVars, selectedFolder, isSyncing>>

\* context.clearIndex returns; the synchronizer and the collection are prepared
IndexCleared ==
    /\ pc["index"] = "clearIndex"
    /\ ReleaseWriter("index")
    /\ pc' = [pc EXCEPT !["index"] = "prepare"]
    /\ UNCHANGED <<storeVars, ctxVars, extVars, selectedFolder, isSyncing, event>>

\* context.indexCodebase is called
IndexCodebase ==
    /\ pc["index"] = "prepare"
    /\ RequestWriter("index", "indexCodebase", "failed")
    /\ UNCHANGED <<storeVars, ctxVars, extVars, selectedFolder, isSyncing>>

\* context.indexCodebase returns or throws: the command ends
IndexDone ==
    /\ pc["index"] = "indexCodebase"
    /\ ReleaseWriter("index")
    /\ pc' = [pc EXCEPT !["index"] = "idle"]
    /\ UNCHANGED <<storeVars, ctxVars, extVars, selectedFolder, isSyncing, event>>

\* The catch block of IndexCommand.execute: the error is shown
IndexFailed ==
    /\ pc["index"] = "failed"
    /\ pc' = [pc EXCEPT !["index"] = "idle"]
    /\ UNCHANGED <<storeVars, ctxVars, extVars, selectedFolder, isSyncing, writer, event>>

\* SyncCommand.execute up to withProgress: returns when a sync is in progress
SyncExecute ==
    /\ IF isSyncing
       THEN /\ event' = [proc |-> "sync", op |-> "reindexByChange", outcome |-> "skipped"]
            /\ UNCHANGED <<pc, isSyncing>>
       ELSE /\ pc["sync"] = "idle"
            /\ isSyncing' = TRUE
            /\ pc' = [pc EXCEPT !["sync"] = "withProgress"]
            /\ UNCHANGED event
    /\ UNCHANGED <<storeVars, ctxVars, extVars, selectedFolder, writer>>

\* The progress task calls context.reindexByChange
SyncReindex ==
    /\ pc["sync"] = "withProgress"
    /\ RequestWriter("sync", "reindexByChange", "failed")
    /\ UNCHANGED <<storeVars, ctxVars, extVars, selectedFolder, isSyncing>>

\* reindexByChange returns or throws: the finally block resets isSyncing
SyncDone ==
    /\ pc["sync"] = "reindexByChange"
    /\ ReleaseWriter("sync")
    /\ pc' = [pc EXCEPT !["sync"] = "idle"]
    /\ isSyncing' = FALSE
    /\ UNCHANGED <<storeVars, ctxVars, extVars, selectedFolder, event>>

\* reindexByChange was rejected: catch, then the finally block
SyncFailed ==
    /\ pc["sync"] = "failed"
    /\ pc' = [pc EXCEPT !["sync"] = "idle"]
    /\ isSyncing' = FALSE
    /\ UNCHANGED <<storeVars, ctxVars, extVars, selectedFolder, writer, event>>

\* SyncCommand.executeSilent up to its first await: it returns when a sync is in progress,
\* and calls context.reindexByChange otherwise
executeSilent ==
    IF isSyncing
    THEN /\ event' = [proc |-> "silent", op |-> "reindexByChange", outcome |-> "skipped"]
         /\ UNCHANGED <<pc, isSyncing, writer>>
    ELSE /\ pc["silent"] = "idle"
         /\ isSyncing' = TRUE
         /\ RequestWriter("silent", "reindexByChange", "failed")

\* An interval timer that was set and not cleared fires: its callback calls executeSilent
TimerTick ==
    /\ intervals # {}
    /\ executeSilent
    /\ UNCHANGED <<storeVars, ctxVars, extVars, selectedFolder>>

SilentDone ==
    /\ pc["silent"] = "reindexByChange"
    /\ ReleaseWriter("silent")
    /\ pc' = [pc EXCEPT !["silent"] = "idle"]
    /\ isSyncing' = FALSE
    /\ UNCHANGED <<storeVars, ctxVars, extVars, selectedFolder, event>>

\* An executeSilent whose rejected call leaves isSyncing set
SilentFailedKeepsLock ==
    /\ pc["silent"] = "failed"
    /\ pc' = [pc EXCEPT !["silent"] = "idle"]
    /\ UNCHANGED <<storeVars, ctxVars, extVars, selectedFolder, isSyncing, writer, event>>

\* reindexByChange was rejected: the error is rethrown through the finally block
SilentFailed ==
    /\ pc["silent"] = "failed"
    /\ pc' = [pc EXCEPT !["silent"] = "idle"]
    /\ isSyncing' = FALSE
    /\ UNCHANGED <<storeVars, ctxVars, extVars, selectedFolder, writer, event>>

-----------------------------------------------------------------------------
(* The extension: activation, configuration reloads, deactivation, the auto-sync timer *)

\* The interval timers that can be told apart
MaxTimers == 3
TimerIds == 1 .. MaxTimers

\* The extension is active and its auto-sync timer runs
AutoSyncRunning ==
    /\ activation = "active"
    /\ autoSyncEnabled = TRUE
    /\ autoSyncDisposable = 1
    /\ intervals = {1}
    /\ reactions = <<>>

\* The extension is installed and not yet activated: autoSyncDisposable is null
Installed ==
    /\ activation = "inactive"
    /\ autoSyncEnabled \in BOOLEAN
    /\ autoSyncDisposable = 0
    /\ intervals = {}
    /\ reactions = <<>>

\* The timers a reference may still name
Referenced == intervals \cup { reactions[i] : i \in DOMAIN reactions } \cup {autoSyncDisposable}

\* setInterval returns a timer that no reference names yet
setInterval == CHOOSE t \in TimerIds \ Referenced : \A u \in TimerIds \ Referenced : t <= u

\* The disposable that startAutoSync returned is disposed: clearInterval
dispose(t) == intervals \ {t}

\* SyncCommand.startAutoSync: the interval timer is set, and the promise of its disposable
\* is fulfilled when the caller attaches the then-callback, which is queued
startAutoSync(live) ==
    /\ TimerIds \ Referenced # {}
    /\ intervals' = live \cup {setInterval}
    /\ reactions' = Append(reactions, setInterval)

\* A setupAutoSync that drops the disposable of the running timer without disposing it
setupAutoSyncKeepsTimer(enabled) ==
    /\ autoSyncDisposable' = 0
    /\ IF enabled THEN startAutoSync(intervals)
       ELSE UNCHANGED <<intervals, reactions>>

\* setupAutoSync: the existing disposable is disposed and forgotten; auto-sync is started
\* when the setting enables it
setupAutoSync(enabled) ==
    LET live == IF autoSyncDisposable # 0 THEN dispose(autoSyncDisposable) ELSE intervals
    IN  /\ autoSyncDisposable' = 0
        /\ IF enabled THEN startAutoSync(live)
           ELSE intervals' = live /\ UNCHANGED reactions

\* The then-callback of setupAutoSync: the disposable is kept in autoSyncDisposable
AutoSyncStarted ==
    /\ reactions # <<>>
    /\ autoSyncDisposable' = Head(reactions)
    /\ reactions' = Tail(reactions)
    /\ UNCHANGED <<storeVars, cmdVars, ctxVars, activation, autoSyncEnabled, intervals>>

\* A then-callback that is queued runs before the host calls the extension again:
\* startAutoSync awaits nothing, so its promise is fulfilled when the callback is
\* attached, and the callback runs when the calling handler returns
Drained == reactions = <<>>

\* activate: the commands are created, setupAutoSync is called, and runInitialSync calls
\* executeSilent
activate ==
    /\ activation = "inactive"
    /\ Drained
    /\ activation' = "active"
    /\ setupAutoSync(autoSyncEnabled)
    /\ executeSilent
    /\ UNCHANGED <<storeVars, ctxVars, selectedFolder, autoSyncEnabled>>

\* reloadContextConfiguration, called by the configuration listener (the setting may have
\* changed) and by the reloadConfiguration command: the Context gets a new store
\* instance, and setupAutoSync restarts auto-sync
reloadContextConfiguration(enabled) ==
    /\ activation = "active"
    /\ Drained
    /\ autoSyncEnabled' = enabled
    /\ db' = NoDb
    /\ currentCodebasePath' = NoName
    /\ dimension' = 0
    /\ setupAutoSync(enabled)
    /\ UNCHANGED <<env, cfg, dirs, disk, out, upserted, created, nops, mappings, paths,
                   cmdVars, ctxVars, activation>>

\* deactivate: the disposable, when there is one, is disposed and forgotten
deactivate ==
    /\ activation = "active"
    /\ Drained
    /\ activation' = "deactivated"
    /\ intervals' = IF autoSyncDisposable # 0 THEN dispose(autoSyncDisposable) ELSE intervals
    /\ autoSyncDisposable' = 0
    /\ UNCHANGED <<storeVars, cmdVars, ctxVars, autoSyncEnabled, reactions>>

-----------------------------------------------------------------------------
(* Context: full and incremental indexing, after the specification *)

FilePaths == { "a.ts", "b.ts", "dist/c.js" }
Contents == { "", "x", "y" }

\* The ignore rules: build output is not indexed
Ignored(p) == p = "dist/c.js"

sha256(content) == <<"sha256", content>>

\* File Synchronizer: the included files with their fresh hashes
walk(t) == [p \in { q \in DOMAIN t : ~Ignored(q) } |-> sha256(t[p])]

\* Splitter: the chunks of a file; every chunk has content, an empty file has none
split(p, content) ==
    IF content = "" THEN {} ELSE { [relativePath |-> p, content |-> content] }

ChunksOf(t, ps) == UNION { split(p, t[p]) : p \in ps }

\* File Synchronizer: the paths only in curr, only in prev, and in both with another hash
diff(prev, curr) ==
    [added    |-> DOMAIN curr \ DOMAIN prev,
     removed  |-> DOMAIN prev \ DOMAIN curr,
     modified |-> { p \in DOMAIN prev \cap DOMAIN curr : prev[p] # curr[p] }]

NoSnapshot == [present |-> FALSE, fileHashes |-> <<>>]
\* The embedding settings of a Context: the embeddingDimension of its configuration (0: not
\* given), the EMBEDDING_DIMENSION variable (<<>>: unset) and the embedder's getDimension()
\* (0: unknown model)
EnvDimensions == { <<>>, <<"0">>, <<"3">>, <<"-", "1">>, <<"x">> }
Settings ==
    [embeddingDimension : {0, 1}, EMBEDDING_DIMENSION : EnvDimensions, getDimension : {0, 2}]
NoSettings == [embeddingDimension |-> 0, EMBEDDING_DIMENSION |-> <<>>, getDimension |-> 0]
\* An embedder of a known model, and no override
KnownModel == [NoSettings EXCEPT !.getDimension = 2]

DigitValue == ("0" :> 0) @@ ("1" :> 1) @@ ("2" :> 2) @@ ("3" :> 3)
NaN == [nan |-> TRUE, value |-> 0]

\* parseInt of a decimal string
RECURSIVE parseDigits(_, _)
parseDigits(s, acc) ==
    IF s = <<>> THEN [nan |-> FALSE, value |-> acc]
    ELSE IF Head(s) \notin DOMAIN DigitValue THEN NaN
    ELSE parseDigits(Tail(s), 10 * acc + DigitValue[Head(s)])
parseInt(s) ==
    IF s = <<>> THEN NaN
    ELSE IF Head(s) = "-"
         THEN IF Tail(s) = <<>> THEN NaN
              ELSE [parseDigits(Tail(s), 0) EXCEPT !.value = 0 - @]
         ELSE parseDigits(s, 0)

\* The EMBEDDING_DIMENSION override: a positive integer, or 0 when unset or invalid
envDimension(s) ==
    IF parseInt(s).nan \/ parseInt(s).value <= 0 THEN 0 ELSE parseInt(s).value

\* A Context that lets the variable override its configuration
resolveDimensionEnvFirst(c) ==
    IF envDimension(c.EMBEDDING_DIMENSION) > 0 THEN envDimension(c.EMBEDDING_DIMENSION)
    ELSE IF c.embeddingDimension > 0 THEN c.embeddingDimension
    ELSE c.getDimension

\* Context: the dimension of the collection, 0 when none is known
resolveDimension(c) ==
    IF c.embeddingDimension > 0 THEN c.embeddingDimension
    ELSE IF envDimension(c.EMBEDDING_DIMENSION) > 0 THEN envDimension(c.EMBEDDING_DIMENSION)
    ELSE c.getDimension

DimensionRequired == "Embedding dimension is required"
DimensionMismatch == "dimension mismatch"

NoRun == [op |-> "", status |-> "", error |-> "", settings |-> NoSettings]
Run(op, completed) == [NoRun EXCEPT !.op = op,
                                    !.status = IF completed THEN "completed" ELSE "failed"]
Failed(op, error, c) == [op |-> op, status |-> "failed", error |-> error, settings |-> c]

InitContext ==
    /\ tree = <<>>
    /\ store = [exists |-> FALSE, dimension |-> 0, chunks |-> {}]
    /\ snapshot = NoSnapshot
    /\ run = NoRun

\* The environment: a file of the codebase is written
WriteFile(p, content) ==
    /\ IF p \in DOMAIN tree THEN tree[p] # content ELSE TRUE
    /\ tree' = (p :> content) @@ tree
    /\ run' = NoRun
    /\ UNCHANGED <<storeVars, cmdVars, extVars, store, snapshot>>

\* The environment: a file of the codebase is removed
RemoveFile(p) ==
    /\ p \in DOMAIN tree
    /\ tree' = [q \in DOMAIN tree \ {p} |-> tree[q]]
    /\ run' = NoRun
    /\ UNCHANGED <<storeVars, cmdVars, extVars, store, snapshot>>

\* The chunks a run wrote: all of them, or only some when the embedder fails for good
Written(chunks, completed) == IF completed THEN { chunks } ELSE (SUBSET chunks) \ { chunks }

\* Context.indexCodebase: the dimension is settled first; the collection is created when
\* forced or absent and otherwise kept if its dimension is the settled one; the chunks of
\* every included file are upserted; on success the snapshot is written from the walk
indexCodebase(c, force, completed) ==
    LET D == resolveDimension(c)
        fresh == force \/ ~store.exists
        kept == IF fresh THEN {} ELSE store.chunks
        curr == walk(tree)
        error == IF D = 0 THEN DimensionRequired
                 ELSE IF ~fresh /\ store.dimension # D THEN DimensionMismatch
                 ELSE ""
    IN  /\ IF error # ""
           THEN /\ run' = Failed("indexCodebase", error, c)
                /\ UNCHANGED <<store, snapshot>>
           ELSE /\ \E written \in Written(ChunksOf(tree, DOMAIN curr), completed) :
                       store' = [exists |-> TRUE, dimension |-> D,
                                 chunks |-> kept \cup written]
                /\ snapshot' = IF completed THEN [present |-> TRUE, fileHashes |-> curr]
                                ELSE snapshot
                /\ run' = [Run("indexCodebase", completed) EXCEPT !.settings = c]
        /\ UNCHANGED <<storeVars, cmdVars, extVars, tree>>

\* Context.reindexByChange: the chunks of the removed and modified files are deleted, the
\* added and modified files are chunked and upserted, and the new snapshot is written
reindexByChange(completed) ==
    LET curr == walk(tree)
        d == diff(snapshot.fileHashes, curr)
        kept == { c \in store.chunks : c.relativePath \notin d.removed \cup d.modified }
    IN  /\ store.exists
        /\ \E written \in Written(ChunksOf(tree, d.added \cup d.modified), completed) :
               store' = [store EXCEPT !.chunks = kept \cup written]
        /\ snapshot' = IF completed THEN [present |-> TRUE, fileHashes |-> curr] ELSE snapshot
        /\ run' = Run("reindexByChange", completed)
        /\ UNCHANGED <<storeVars, cmdVars, extVars, tree>>

-----------------------------------------------------------------------------
(* The store specification *)

EnvDir == "/custom/vectors"
CustomDb == "/custom/store.db"

\* Store configurations: default directory; VECTOR_DB_PATH set; explicit dbPath;
\* createVectorDatabaseFromEnv (dbPath = VECTOR_DB_PATH, an existing directory or not);
\* default directory in which the database of /w/py cannot be opened
Configs ==
    { [env |-> "", cfg |-> "", dirs |-> {}],
      [env |-> EnvDir, cfg |-> "", dirs |-> {}],
      [env |-> "", cfg |-> CustomDb, dirs |-> {}],
      [env |-> EnvDir, cfg |-> EnvDir, dirs |-> {}],
      [env |-> EnvDir, cfg |-> EnvDir, dirs |-> {EnvDir}],
      [env |-> "", cfg |-> "", dirs |-> {PyDbPath}] }

\* A new store instance, over the database files and the mappings that earlier runs left
InitFrom(configs, earlier) ==
    /\ \E c \in configs : env = c.env /\ cfg = c.cfg /\ dirs = c.dirs \cup earlier.dirs
    /\ disk = earlier.disk
    /\ db = NoDb
    /\ currentCodebasePath = NoName
    /\ dimension = 0
    /\ out = Result(Call("new", NoName, NoArgs), Ok)
    /\ upserted = [c \in Names |-> {}]
    /\ created = [c \in Names |-> IF c \in earlier.created THEN 2 ELSE 0]
    /\ nops = 0
    /\ mappings = earlier.mappings
    /\ paths = { Resolve(p) : p \in Paths }
    /\ InitCommands
    /\ InitContext

\* The store of a running extension
InitRunning(configs, earlier) == InitFrom(configs, earlier) /\ AutoSyncRunning

\* Nothing on disk yet
NoRuns == [dirs |-> {}, disk |-> <<>>, mappings |-> NoMappings, created |-> {}]
InitWith(configs) == InitRunning(configs, NoRuns)

\* An earlier run indexed /w/py: getVectorDbPath recorded its mapping and
\* createHybridCollection wrote its database
PyIndexed ==
    [dirs     |-> {VECTOR_DB_DIR},
     disk     |-> VectorDbFile("/w/py") :>
                      [EmptyDb EXCEPT !.hasDocuments = TRUE, !.dim = 2, !.hasFts = TRUE],
     mappings |-> savePathMapping(NoMappings, getPathHash("/w/py"), "/w/py"),
     created  |-> { getCollectionName("/w/py", TRUE) }]


NextWith(colls, batches) ==
    \/ \E c \in colls, D \in Dims : createCollection(c, D)
    \/ \E c \in colls, D \in Dims : createHybridCollection(c, D)
    \/ \E c \in colls : dropCollection(c)
    \/ \E c \in colls : hasCollection(c)
    \/ \E c \in colls, docs \in batches : insert(c, docs)
    \/ \E c \in colls, docs \in batches, ftsFails \in BOOLEAN : insertHybrid(c, docs, ftsFails)
    \/ \E c \in colls, ids \in (SUBSET Ids) \ {{}} : delete(c, ids)
    \/ \E c \in colls, q \in QueryVectors, topK \in {0, 1}, f \in Filters : search(c, q, topK, f)
    \/ \E c \in colls, h \in HybridRequests, txt \in TextRequests, f \in Filters :
          hybridSearch(c, h.vreq, txt, h.limit, f)
    \/ \E c \in colls, f \in Filters, l \in {0, 1} : query(c, f, l)
    \/ close

\* One collection, default configuration
TsColl == getCollectionName("/w/ts", TRUE)
Spec == InitWith({ [env |-> "", cfg |-> "", dirs |-> {}] }) /\ [][NextWith({TsColl}, Batches)]_vars

\* Hybrid collections only, no full-text write failing
NextHybrid ==
    \/ \E D \in Dims : createHybridCollection(TsColl, D)
    \/ \E docs \in Batches : insertHybrid(TsColl, docs, FALSE)
    \/ \E ids \in (SUBSET Ids) \ {{}} : delete(TsColl, ids)
SpecHybrid == InitWith({ [env |-> "", cfg |-> "", dirs |-> {}] }) /\ [][NextHybrid]_vars


\* Two collections on one store instance, under every configuration
SecondDoc == [id |-> "b", vector |-> <<0, 1>>, content |-> "x", fileExtension |-> ".py"]
NextMulti ==
    \/ \E c \in Colls, D \in Dims : createCollection(c, D)
    \/ \E c \in Colls, D \in Dims : createHybridCollection(c, D)
    \/ \E c \in Colls : dropCollection(c)
    \/ \E c \in Colls : hasCollection(c)
    \/ \E c \in Colls, d \in {FirstDoc, SecondDoc} : insert(c, <<d>>)
    \/ \E c \in Colls, d \in {FirstDoc, SecondDoc} : insertHybrid(c, <<d>>, FALSE)
    \/ \E c \in Colls : delete(c, {"a"})
    \/ \E c \in Colls : search(c, <<1, 0>>, 0, NoFilter)
    \/ \E c \in Colls : hybridSearch(c, [present |-> TRUE, data |-> <<1, 0>>, limit |-> 0],
                                     [present |-> TRUE, data |-> "x"], 0, NoFilter)
    \/ \E c \in Colls : query(c, NoFilter, 0)
    \/ close
SpecMulti == InitWith(Configs) /\ [][NextMulti]_vars

\* The registry and a store in the default configuration, with and without VECTOR_DB_PATH
NextPaths ==
    \/ \E p \in Paths : getVectorDbPath(p)
    \/ \E p \in Paths : vectorDbExists(p)
    \/ \E p \in Paths : getVectorDbSize(p)
    \/ listAllVectorDbs
    \/ listCollections
    \/ cleanupOrphanedDatabases
    \/ \E p \in Paths : deleteVectorDb(p)
    \/ \E p \in paths : RemoveCodebase(p)
    \/ \E n \in Names : createCollection(n, 2)
    \/ \E n \in Names : hasCollection(n)
    \/ close
InitPaths ==
    \E earlier \in { NoRuns, PyIndexed } :
        InitRunning({ [env |-> "", cfg |-> "", dirs |-> {}],
                      [env |-> EnvDir, cfg |-> "", dirs |-> {}] }, earlier)
SpecPaths == InitPaths /\ [][NextPaths]_vars

\* The commands of the extension on one Context
NextCommands ==
    \/ \E folder \in Folders : IndexExecute(folder)
    \/ \E yes \in BOOLEAN : IndexConfirm(yes)
    \/ IndexCleared
    \/ IndexCodebase
    \/ IndexDone
    \/ IndexFailed
    \/ SyncExecute
    \/ SyncReindex
    \/ SyncDone
    \/ SyncFailed
    \/ TimerTick
    \/ SilentDone
    \/ SilentFailed
SpecCommands == InitWith({ [env |-> "", cfg |-> "", dirs |-> {}] }) /\ [][NextCommands]_vars

\* The commands of an activated extension, called when no then-callback is queued
Commands == Drained /\ activation # "inactive" /\ NextCommands

\* The life of the extension
NextExtension ==
    \/ activate
    \/ AutoSyncStarted
    \/ \E enabled \in BOOLEAN : reloadContextConfiguration(enabled)
    \/ deactivate
    \/ Commands
InitExtension == InitFrom({ [env |-> "", cfg |-> "", dirs |-> {}] }, NoRuns) /\ Installed
SpecExtension == InitExtension /\ [][NextExtension]_vars

\* A large dense-only collection, written by an earlier run (createCollection and insert):
\* chunk k has the vector <<1, k>>, so the chunks are at distinct distances from <<1, 0>>
BulkDoc(k) == [id |-> k, vector |-> <<1, k>>, content |-> "y", fileExtension |-> ".ts"]
BulkRows(n) == { BulkDoc(k) : k \in 1..n }
BulkLimits == { 1, DenseTopK, MaxChunks }
BulkQuery == [present |-> TRUE, data |-> <<1, 0>>, limit |-> 0]

InitBulk ==
    /\ env = "" /\ cfg = ""
    /\ dirs = {getVectorDbDir}
    /\ \E n \in 0..MaxChunks :
          /\ disk = getDbPathFromCollection(TsColl) :>
                        [EmptyDb EXCEPT !.hasDocuments = TRUE, !.dim = 2,
                                        !.documents = BulkRows(n)]
          /\ upserted = [c \in Names |-> IF c = TsColl THEN BulkRows(n) ELSE {}]
    /\ created = [c \in Names |-> IF c = TsColl THEN 2 ELSE 0]
    /\ db = NoDb
    /\ currentCodebasePath = NoName
    /\ dimension = 0
    /\ out = Result(Call("new", NoName, NoArgs), Ok)
    /\ nops = 0
    /\ mappings = NoMappings
    /\ paths = { Resolve(p) : p \in Paths }
    /\ InitCommands
    /\ InitContext
    /\ AutoSyncRunning

NextBulk ==
    \/ \E topK \in BulkLimits : search(TsColl, BulkQuery.data, topK, NoFilter)
    \/ \E txt \in TextRequests, l \in BulkLimits :
          hybridSearch(TsColl, BulkQuery, txt, l, NoFilter)
SpecBulk == InitBulk /\ [][NextBulk]_vars

\* One codebase: its files are edited, and indexed in full or by change
NextIndex ==
    \/ \E p \in FilePaths, content \in Contents : WriteFile(p, content)
    \/ \E p \in FilePaths : RemoveFile(p)
    \/ \E force, completed \in BOOLEAN : indexCodebase(KnownModel, force, completed)
    \/ \E completed \in BOOLEAN : reindexByChange(completed)
SpecIndex == InitWith({ [env |-> "", cfg |-> "", dirs |-> {}] }) /\ [][NextIndex]_vars

\* One codebase, indexed under every embedding setting
NextDimension ==
    \/ \E content \in Contents : WriteFile("a.ts", content)
    \/ \E c \in Settings, force, completed \in BOOLEAN : indexCodebase(c, force, completed)
SpecDimension == InitWith({ [env |-> "", cfg |-> "", dirs |-> {}] }) /\ [][NextDimension]_vars

-----------------------------------------------------------------------------
(* Properties of the vector store *)

\* The tables a collection name stands for under the configuration
StoredIn(files, name) ==
    IF DbPathOf(name) \in DOMAIN files THEN files[DbPathOf(name)] ELSE EmptyDb
Stored(name) == StoredIn(disk, name)

\* The call that was last made, and what it returned
LastOp == out.call.op
LastArgs == out.call.args
Returned == ~out.ret.threw
Returns(ops) == LastOp \in ops /\ Returned

\* A chunk satisfies a filter expression
Satisfies(chunk, filterExpr) ==
    filterExpr.kind = "in" => chunk[filterExpr.field] \in filterExpr.values

\* C1: every chunk that search or hybridSearch returns satisfies the filter expression of
\* the call, whichever of the two ranked lists brought it into the result
C1_FilterHonored ==
    Returns({"search", "hybridSearch"}) =>
        \A i \in DOMAIN out.ret.hits : Satisfies(out.ret.hits[i], LastArgs.filterExpr)

\* The full-text rows of a table that carry the id
FtsRowsOf(t, id) == { i \in DOMAIN t.documents_fts : t.documents_fts[i].id = id }

\* C6: in a hybrid collection that was only written by createHybridCollection, insertHybrid
\* and delete, with no full-text write failing, the full-text table holds exactly one row
\* for each id of the dense table and no row for any other id
C6_TablesInSync ==
    \A id \in Ids :
        Cardinality(FtsRowsOf(Stored(TsColl), id))
            = IF id \in RowIds(Stored(TsColl).documents) THEN 1 ELSE 0

\* C7: right after createCollection or createHybridCollection returns, the collection
\* exists with the dimension given, its dense table holds no chunk and no full-text row
\* is left; the state after the call being this one whatever came before, a second call
\* leaves what the first one left
C7_CreateLeavesEmpty ==
    Returns({"createCollection", "createHybridCollection"}) =>
        /\ Stored(out.call.name).hasDocuments
        /\ Stored(out.call.name).dim = LastArgs.D
        /\ Stored(out.call.name).documents = {}
        /\ Stored(out.call.name).documents_fts = <<>>

\* C8: the dense table holds exactly one row for each id that was upserted and not deleted
\* since the collection was created, with the fields of the last upsert of the id
C8_UpsertKeepsOneRow ==
    Stored(TsColl).hasDocuments =>
        /\ Stored(TsColl).documents = upserted[TsColl]
        /\ \A r1, r2 \in Stored(TsColl).documents : r1.id = r2.id => r1 = r2

\* C9: search, hybridSearch (given its vector request) and query on a collection whose
\* table does not exist return an empty result and do not throw
C9_MissingTableReadsEmpty ==
    /\ LastOp \in {"search", "hybridSearch", "query"}
    /\ LastOp = "hybridSearch" => LastArgs.vreq.present
    /\ ~Stored(out.call.name).hasDocuments
    => Returned /\ out.ret.hits = <<>>

\* The 1-based rank of an id in a ranked list, an id counting once (0: not in the list)
Rank(list, id) ==
    IF \E i \in DOMAIN list : list[i] = id
    THEN CHOOSE i \in DOMAIN list : list[i] = id /\ \A j \in 1..(i - 1) : list[j] # id
    ELSE 0

\* The RRF score of an id over the dense list and the lexical list: 1 / (60 + rank) for
\* each list that ranks the id
Fused(lists, id) ==
    Score(IF Rank(lists.vectorResults, id) = 0 THEN 0 ELSE RrfK + Rank(lists.vectorResults, id),
          IF Rank(lists.textResults, id) = 0 THEN 0
          ELSE Scale \div (RrfK + Rank(lists.textResults, id)))

\* The ids the two lists rank
Ranked(lists) == Range(lists.vectorResults) \cup Range(lists.textResults)

\* C10: what hybridSearch returns is the `limit` ids of highest RRF score (k = 60, each id
\* counted once per list), in descending order of score, each joined to its row
C10_RrfRanking ==
    Returns({"hybridSearch"}) =>
        LET hits == out.ret.hits
            lists == out.ret.lists
            limit == HybridLimit(LastArgs.limit, LastArgs.vreq)
        IN /\ \A i \in DOMAIN hits : ScoreEqual(hits[i].score, Fused(lists, hits[i].id))
           /\ \A i, j \in DOMAIN hits : i < j => ~ScoreAbove(hits[j].score, hits[i].score)
           /\ \A i, j \in DOMAIN hits : i # j => hits[i].id # hits[j].id
           /\ Len(hits) = Min(limit, Cardinality(Ranked(lists)))
           /\ \A id \in Ranked(lists) \ { hits[i].id : i \in DOMAIN hits } :
                  \A i \in DOMAIN hits : ~ScoreAbove(Fused(lists, id), hits[i].score)
           /\ \A i \in DOMAIN hits :
                  \E r \in Stored(out.call.name).documents :
                      /\ r.id = hits[i].id
                      /\ r.content = hits[i].content
                      /\ r.fileExtension = hits[i].fileExtension

\* The lexicographic order of the chunk ids
IdOrder == <<"a", "b">>
IdBefore(x, y) == Rank(IdOrder, x) < Rank(IdOrder, y)

\* The stored vector of a returned chunk
VectorOf(name, id) == RowOf(Stored(name).documents, id).vector

\* C11: of two chunks hybridSearch returns with the same RRF score, the one nearer to the
\* query vector comes first, and at the same cosine distance the one of the smaller id
C11_TieBreak ==
    Returns({"hybridSearch"}) =>
        LET hits == out.ret.hits
            q == LastArgs.vreq.data
            v(i) == VectorOf(out.call.name, hits[i].id)
        IN \A i, j \in DOMAIN hits :
               (i < j /\ ScoreEqual(hits[i].score, hits[j].score)) =>
                   /\ ~Closer(v(j), v(i), q)
                   /\ SameDistance(v(i), v(j), q) => IdBefore(hits[i].id, hits[j].id)

\* The stored chunks that satisfy a filter expression
Passing(name, filterExpr) == { r \in Stored(name).documents : Satisfies(r, filterExpr) }

\* C13: search returns min(topK, number of chunks passing the filter) chunks (topK 10 when
\* not given), each one a stored chunk that passes the filter, in ascending cosine distance
\* to q, and no passing chunk that was left out is strictly nearer than a returned one
C13_TopKOfFiltered ==
    Returns({"search"}) =>
        LET hits == out.ret.hits
            q == LastArgs.q
            topK == IF LastArgs.topK = 0 THEN DefaultTopK ELSE LastArgs.topK
            passing == Passing(out.call.name, LastArgs.filterExpr)
            v(i) == VectorOf(out.call.name, hits[i].id)
        IN /\ Len(hits) = Min(topK, Cardinality(passing))
           /\ \A i \in DOMAIN hits :
                  \E r \in passing : /\ r.id = hits[i].id
                                     /\ r.content = hits[i].content
                                     /\ r.fileExtension = hits[i].fileExtension
           /\ \A i, j \in DOMAIN hits : i < j => hits[i].id # hits[j].id
           /\ \A i, j \in DOMAIN hits : i < j => ~Closer(v(j), v(i), q)
           /\ \A r \in passing :
                  r.id \notin { hits[i].id : i \in DOMAIN hits } =>
                      \A i \in DOMAIN hits : ~Closer(r.vector, v(i), q)

\* search with topK = 1 and a filter returned a chunk although a chunk the filter excludes
\* is strictly nearer to the query vector
C13_NearerChunkExcluded ==
    /\ Returns({"search"})
    /\ LastArgs.topK = 1
    /\ Len(out.ret.hits) = 1
    /\ \E r \in Stored(out.call.name).documents :
          /\ ~Satisfies(r, LastArgs.filterExpr)
          /\ Closer(r.vector, VectorOf(out.call.name, out.ret.hits[1].id), LastArgs.q)

\* C14: delete on a collection that exists, dense-only or hybrid, returns without error,
\* whether the listed ids are stored or not; afterwards the dense table and the full-text
\* table hold the rows they held whose id is not listed, and nothing else changed
C14_DeleteFrame ==
    [][LET name == out'.call.name
           ids == out'.call.args.ids
           before == StoredIn(disk, name)
           after == StoredIn(disk', name)
       IN (out'.call.op = "delete" /\ before.hasDocuments) =>
              /\ ~out'.ret.threw
              /\ after.documents = { r \in before.documents : r.id \notin ids }
              /\ after.documents_fts =
                     SelectSeq(before.documents_fts, LAMBDA r : r.id \notin ids)
              /\ after.hasDocuments /\ after.hasFts = before.hasFts
              /\ after.dim = before.dim]_vars

\* delete of chunk "b" returned on a dense-only collection, where chunk "a" is still stored
C14_DenseOnlyDelete ==
    /\ Returns({"delete"})
    /\ LastArgs.ids = {"b"}
    /\ Stored(out.call.name).hasDocuments /\ ~Stored(out.call.name).hasFts
    /\ \E r \in Stored(out.call.name).documents : r.id = "a"

\* C15: hasCollection answers true exactly for a collection whose dense table exists: one
\* that was created by createCollection or createHybridCollection and not dropped since;
\* it answers false for a collection that was never created
C15_HasCollection ==
    Returns({"hasCollection"}) => out.ret.flag = (created[out.call.name] # 0)

\* hasCollection answers whether the dense table of the file the collection maps to exists
HasCollectionOfFile ==
    Returns({"hasCollection"}) => out.ret.flag = Stored(out.call.name).hasDocuments

\* The chunk a batch leaves for each of its ids: the last one of the id
LastOfBatch(docs) ==
    { docs[i] : i \in { j \in DOMAIN docs : \A k \in DOMAIN docs : docs[k].id = docs[j].id => k <= j } }

\* C16: an insertHybrid whose dense writes succeed and whose full-text write fails, the
\* full-text table missing or the write itself failing, returns without raising and leaves
\* the chunks of the batch in the dense table
C16_FtsFailureNonFatal ==
    LET t == Stored(out.call.name)
        docs == LastArgs.docs
    IN (/\ LastOp = "insertHybrid"
        /\ t.hasDocuments
        /\ \A i \in DOMAIN docs : Len(docs[i].vector) = t.dim
        /\ LastArgs.ftsFails \/ ~t.hasFts)
       => /\ Returned
          /\ LastOfBatch(docs) \subseteq t.documents

\* C17: every chunk stored in a collection has a vector of the dimension the collection was
\* last created with, whatever createCollection, createHybridCollection, insert and
\* insertHybrid calls were made on the collections of one store instance
C17_VectorLength ==
    \A c \in Colls :
        created[c] # 0 => \A r \in Stored(c).documents : Len(r.vector) = created[c]

\* Every stored chunk has a vector of the dimension of the dense table that holds it
VectorLengthOfTable ==
    \A c \in Colls : \A r \in Stored(c).documents : Len(r.vector) = Stored(c).dim

\* C18: an insert or insertHybrid that fails on a chunk, its vector not having the length
\* of the collection, raises and leaves the tables as they were before the call: no chunk
\* of the batch is written and no stored chunk is lost
C18_FailedBatchAtomic ==
    [][LET name == out'.call.name
           docs == out'.call.args.docs
           before == StoredIn(disk, name)
       IN (/\ out'.call.op \in {"insert", "insertHybrid"}
           /\ before.hasDocuments
           /\ \E i \in DOMAIN docs : Len(docs[i].vector) # before.dim)
          => /\ out'.ret.threw
             /\ StoredIn(disk', name) = before]_vars

\* The columns a filter expression may name
Filterable == { "relativePath", "fileExtension", "startLine", "endLine" }

\* C19: a filter expression that names a column outside the filterable ones does not reach
\* the statement of search or query: the call raises, or returns what it returns without
\* the filter (as many chunks as are stored, up to topK or limit)
C19_OnlyFilterableFields ==
    LET f == IF LastOp = "search" THEN LastArgs.filterExpr ELSE LastArgs.filter
        n == IF LastOp = "search"
             THEN (IF LastArgs.topK = 0 THEN DefaultTopK ELSE LastArgs.topK)
             ELSE LastArgs.limit
        stored == Cardinality(Stored(out.call.name).documents)
    IN (/\ Returns({"search", "query"})
        /\ f.kind # "none"
        /\ f.field \notin Filterable)
       => Len(out.ret.hits) = IF n = 0 THEN stored ELSE Min(n, stored)

\* hybridSearch fused no lexical list: no text request, an empty text, or a full-text
\* query that failed
NoLexical ==
    \/ ~LastArgs.treq.present
    \/ LastArgs.treq.data = ""
    \/ ~Stored(out.call.name).hasFts
    \/ FtsSyntaxError(LastArgs.treq.data)

\* The id lists search(q, topK, filterExpr) can return on the stored chunks
SearchIds(name, q, topK, filterExpr) ==
    { Ids1(rows) : rows \in SearchResults(Stored(name), q, topK, filterExpr) }

\* C12 as stated: with no lexical list, hybridSearch returns the ids search returns for
\* topK = limit and the same filter, in the same order, whatever the limit and the number of
\* stored chunks
C12_ReducesToDense ==
    (Returns({"hybridSearch"}) /\ NoLexical) =>
        Ids1(out.ret.hits) \in
            SearchIds(out.call.name, LastArgs.vreq.data,
                      HybridLimit(LastArgs.limit, LastArgs.vreq), LastArgs.filterExpr)

\* C12: with no lexical list, hybridSearch returns the ids search returns for
\* topK = min(limit, 50) and the same filter, in the same order: the dense list that is
\* fused holds 50 candidates at most
C12_ReducesWithinCandidates ==
    (Returns({"hybridSearch"}) /\ NoLexical) =>
        Ids1(out.ret.hits) \in
            SearchIds(out.call.name, LastArgs.vreq.data,
                      Min(HybridLimit(LastArgs.limit, LastArgs.vreq), DenseTopK),
                      LastArgs.filterExpr)

\* hybridSearch was asked for more than 50 chunks of a collection that holds more than 50,
\* fused no lexical list and returned 50
C12_CandidatesCut ==
    /\ Returns({"hybridSearch"}) /\ NoLexical
    /\ LastArgs.limit > DenseTopK
    /\ Cardinality(Stored(out.call.name).documents) > DenseTopK
    /\ Len(out.ret.hits) = DenseTopK

\* What hasCollection, search, hybridSearch and query on a collection depend on
View(name) ==
    [exists |-> Stored(name).hasDocuments,
     documents |-> Stored(name).documents,
     documents_fts |-> Stored(name).documents_fts]

Writers ==
    {"createCollection", "createHybridCollection", "insert", "insertHybrid", "delete",
     "dropCollection"}

\* C2: a write addressed to one collection leaves what the reads of every other
\* collection return as it was, under every configuration of the store
C2_Isolation ==
    [][\A c \in Colls :
          (out'.call.op \in Writers /\ out'.call.name # c) => View(c)' = View(c)]_vars

\* The operations of the store that address a collection
Addressing ==
    { "createCollection", "createHybridCollection", "dropCollection", "hasCollection",
      "insert", "insertHybrid", "delete", "search", "hybridSearch", "query" }

\* C26: the handle a store instance keeps is an open connection, to the database of the
\* collection addressed last, also after an open that failed; after close() it keeps none
C26_OneOpenHandle ==
    /\ db.file # NoFile => db.open /\ db.file = DbPathOf(currentCodebasePath)
    /\ (LastOp \in Addressing /\ db.file # NoFile) => currentCodebasePath = out.call.name
    /\ LastOp = "close" => db.file = NoFile /\ currentCodebasePath = NoName

\* C28: whatever store operations came before on the collection, every id in the two
\* lists hybridSearch fuses has a row in the dense table, and hybridSearch does not raise
\* while it joins the ranked ids to their rows
C28_RankedIdsHaveRows ==
    LastOp = "hybridSearch" =>
        /\ Range(out.ret.lists.vectorResults) \cup Range(out.ret.lists.textResults)
               \subseteq RowIds(Stored(out.call.name).documents)
        /\ out.ret.lists # NoLists => ~out.ret.threw

-----------------------------------------------------------------------------
(* Properties of naming and of the storage root *)

\* C4: whatever name the store is addressed with for a codebase, the file it opens is
\* named by the 8-hex id of the codebase, the one getPathHash gives
C4_OneIdEverywhere ==
    \A p \in Paths :
        (db.open /\ currentCodebasePath \in Addresses(p)) =>
            /\ Len(db.file.base) = HashLen
            /\ db.file.base = getPathHash(p)

\* C5: the file the store opens for the collection of a codebase is the file the registry
\* functions operate on, whether VECTOR_DB_PATH is set or not
C5_SameRoot ==
    \A p \in Paths, isHybrid \in BOOLEAN :
        (db.open /\ currentCodebasePath = getCollectionName(p, isHybrid)) =>
            db.file = VectorDbFile(p)

\* The registry maps the id of p to the resolved path of p
Mapped(m, p) == getPathHash(p) \in DOMAIN m /\ m[getPathHash(p)] = Resolve(p)

Calls(op) == nops' # nops /\ out'.call.op = op

\* The files and the mappings but for those of the ids
FilesBut(files, ids) == [f \in { g \in DOMAIN files : g.base \notin ids } |-> files[f]]
MappingsBut(m, ids) == [h \in DOMAIN m \ ids |-> m[h]]

\* C23: when deleteVectorDb(p) returns true, neither the database file nor the mapping of
\* p remains and every other file and mapping is as before; when there is no database
\* file for p it returns false and changes neither the files nor the mappings
C23_DeleteFrame ==
    [][Calls("deleteVectorDb") =>
          LET p == out'.call.args.path
              id == getPathHash(p)
          IN  /\ out'.ret.flag = (VectorDbFile(p) \in DOMAIN disk)
              /\ IF out'.ret.flag
                 THEN /\ VectorDbFile(p) \notin DOMAIN disk'
                      /\ id \notin DOMAIN mappings'
                      /\ FilesBut(disk', {id}) = FilesBut(disk, {id})
                      /\ MappingsBut(mappings', {id}) = MappingsBut(mappings, {id})
                 ELSE disk' = disk /\ mappings' = mappings]_vars

\* The database files in the vectors directory of a codebase whose directory is gone
Gone(files, living) ==
    { f \in DOMAIN files : \E p \in Paths : f = VectorDbFile(p) /\ Resolve(p) \notin living }

\* C24: cleanupOrphanedDatabases deletes the databases of the codebases whose path no
\* longer exists and no other, removes their mappings and no other, and returns their ids;
\* afterwards the vectors directory holds no database of a codebase that is gone
C24_OrphansCleaned ==
    [][Calls("cleanupOrphanedDatabases") =>
          LET ids == { f.base : f \in Gone(disk, paths) }
          IN  /\ out'.ret.entries = ids
              /\ disk' = [f \in DOMAIN disk \ Gone(disk, paths) |-> disk[f]]
              /\ mappings' = MappingsBut(mappings, ids)
              /\ Gone(disk', paths') = {}]_vars

Listed(files) == { f.base : f \in { g \in DOMAIN files : g.dir = VECTOR_DB_DIR } }

\* C29: hasCollection, vectorDbExists and getVectorDbSize create no database file and add
\* no path mapping: the database files, the mappings and what listCollections lists are
\* after the call what they were before
C29_QueriesReadOnly ==
    [][(nops' # nops /\ out'.call.op \in {"hasCollection", "vectorDbExists", "getVectorDbSize"}) =>
          /\ DOMAIN disk' = DOMAIN disk
          /\ mappings' = mappings
          /\ Listed(disk') = Listed(disk)]_vars

-----------------------------------------------------------------------------
(* Properties of the commands *)

\* The writer operations in progress on a codebase
Running(c) == { p \in Procs : pc[p] \in WriterOps /\ FolderOf(p) = c }

\* C3: at most one writer operation is in progress on a codebase at any time
C3_OneWriter == \A c \in Folders : Cardinality(Running(c)) <= 1

\* The auto-sync timer fired while the clear-and-index of the same folder was clearing, and
\* its reindexByChange was rejected as busy
C3_BusyDuringClear ==
    /\ pc["index"] = "clearIndex"
    /\ selectedFolder = FirstFolder
    /\ event = [proc |-> "silent", op |-> "reindexByChange", outcome |-> "busy"]

\* The invocations of SyncCommand that are past the isSyncing check and have not returned
Syncing == { p \in {"sync", "silent"} : pc[p] # "idle" }

\* C27: at most one invocation of SyncCommand is past the isSyncing check at any time, so
\* at most one reindexByChange it issued is pending; isSyncing is set exactly while there
\* is one, so it is reset when the call resolves or rejects; and a request that arrives
\* meanwhile returns without calling reindexByChange
C27_SyncLock ==
    [][/\ Cardinality(Syncing') <= 1
       /\ isSyncing' = (Syncing' # {})
       /\ (isSyncing /\ event' # event /\ event'.outcome = "skipped") =>
              pc' = pc /\ writer' = writer /\ isSyncing']_vars

\* execute() was called while the reindexByChange of an auto-sync tick was pending, and
\* returned without calling it
C27_ExecuteSkippedDuringTick ==
    /\ pc["silent"] = "reindexByChange"
    /\ event = [proc |-> "sync", op |-> "reindexByChange", outcome |-> "skipped"]

-----------------------------------------------------------------------------
(* Properties of indexing *)

\* The files of the tree that pass the ignore rules
Included == { p \in DOMAIN tree : ~Ignored(p) }

\* The files that have a chunk in the store
Represented == { c.relativePath : c \in store.chunks }

\* C20: after indexCodebase or reindexByChange succeeded on the tree, every file that
\* passes the ignore rules has a chunk in the store, no chunk has a relativePath outside
\* the tree, and the snapshot records exactly the files that have a chunk in the store
C20_StoreReflectsFiles ==
    run.status = "completed" =>
        /\ Included \subseteq Represented
        /\ Represented \subseteq DOMAIN tree
        /\ snapshot.present
        /\ DOMAIN snapshot.fileHashes = Represented

\* The dimension the settings stand for: the configured one, else a valid positive
\* EMBEDDING_DIMENSION, else the embedder's; 0 when none of them is positive
Override(c) == LET n == parseInt(c.EMBEDDING_DIMENSION) IN IF ~n.nan /\ n.value > 0 THEN n.value ELSE 0
Settled(c) ==
    IF c.embeddingDimension > 0 THEN c.embeddingDimension
    ELSE IF Override(c) > 0 THEN Override(c)
    ELSE c.getDimension

\* C21: a run of indexCodebase whose settings yield no positive dimension fails with
\* 'Embedding dimension is required' and changes neither the store nor the snapshot; any
\* other run does not fail that way, and a collection it prepares has the dimension of the
\* configuration, else of the valid EMBEDDING_DIMENSION, else of the embedder
C21_DimensionSettled ==
    [][run'.op = "indexCodebase" =>
          IF Settled(run'.settings) = 0
          THEN run'.error = DimensionRequired /\ store' = store /\ snapshot' = snapshot
          ELSE /\ run'.error # DimensionRequired
               /\ run'.error = "" => store'.exists /\ store'.dimension = Settled(run'.settings)]_vars

\* An unknown model with a zero override was refused while the tree held a file to index
C21_ZeroOverrideRefused ==
    /\ run.op = "indexCodebase"
    /\ run.error = DimensionRequired
    /\ run.settings.EMBEDDING_DIMENSION = <<"0">>
    /\ \E p \in DOMAIN tree : tree[p] # ""



-----------------------------------------------------------------------------
(* The auto-sync timer *)

\* A step of setupAutoSync or of deactivate that acts on the timer or its disposable
Restarts == extVars' # extVars /\ autoSyncDisposable' = 0

\* Every interval timer that runs is the one autoSyncDisposable stops, or one whose
\* disposable the queued then-callback is about to store
Held == intervals \subseteq ({autoSyncDisposable} \ {0}) \cup { reactions[i] : i \in DOMAIN reactions }

====
